---- MODULE Spec2Model ----
(***************************************************************************)
(* Model of server.js of LogoFive: a paid-access gateway.  A Stripe        *)
(* webhook adds a token to the in-memory set paidTokens, GET /criar and    *)
(* POST /api/generate check the token against the set, and a generation    *)
(* whose upstream call succeeds deletes the token.                         *)
(*                                                                         *)
(* server.js holds two copies of the program (lines 1-190 and 193-381)     *)
(* whose handlers have the same logic; the model follows the first copy.   *)
(* Each action is one run of a handler between two awaits: Node runs a     *)
(* handler without interruption until it awaits, so the awaits are the     *)
(* only points where handlers of different requests interleave.            *)
(***************************************************************************)
EXTENDS Integers, Sequences, FiniteSets, Bags, TLC

(***************************************************************************)
(* Bounds                                                                  *)
(***************************************************************************)
\* Number of HTTP requests the server receives in a run.
MaxRequests == 4

\* Number of pieces a prompt of the sanitiser's runs is made of.
MaxPieces == 3

(***************************************************************************)
(* JavaScript values that reach the handlers.  A string is a sequence of   *)
(* one-character strings.                                                  *)
(***************************************************************************)
Undefined == [type |-> "undefined", str |-> <<>>, num |-> 0]
Str(s) == [type |-> "string", str |-> s, num |-> 0]
Num(n) == [type |-> "number", str |-> <<>>, num |-> n]

\* JavaScript truthiness, as used by `token &&`, `!token`, `!prompt`, `if (b64)`.
Truthy(v) ==
  CASE v.type = "undefined" -> FALSE
    [] v.type = "string" -> v.str # <<>>
    [] v.type = "number" -> v.num # 0

\* Tokens in circulation (makeToken returns 32 alphanumeric characters; two
\* short names stand for two distinct such strings).
T1 == Str(<<"T", "1">>)
T2 == Str(<<"T", "2">>)
Tokens == {T1, T2}

\* makeToken: a random string, here any of the tokens in circulation.
makeToken == Tokens

\* Values a request can carry as its token: a token, nothing, or the empty
\* string.
TokenInputs == Tokens \cup {Undefined, Str(<<>>)}

\* Values the token of a verified event's session metadata can have
\* (session?.metadata?.token): Stripe metadata values are strings.
MetadataTokens == Tokens \cup {Undefined, Str(<<>>)}

Completed == "checkout.session.completed"
EventTypes == {Completed, "payment_intent.succeeded"}

(***************************************************************************)
(* Prompts and their sanitisation                                          *)
(***************************************************************************)
Dragon == <<"d", "r", "a", "g", "o", "n">>
MinecraftCastle ==
  <<"M", "i", "n", "e", "c", "r", "a", "f", "t", " ", "c", "a", "s", "t", "l", "e">>

PromptStrings == {Dragon, MinecraftCastle}
\* Values a request can carry as its prompt: a string, nothing, the empty
\* string, or a value that is not a string.
PromptInputs ==
  {Str(p) : p \in PromptStrings} \cup {Undefined, Str(<<>>), Num(5)}

\* Prompts of the sanitiser's runs: up to MaxPieces pieces, one after the
\* other.  The pieces give the words in several cases, words that only
\* appear once two pieces are joined, overlapping words, and white space at
\* either end.
PromptPieces ==
  {<<"m", "i", "n", "e", "c", "r", "a", "f", "t">>,
   <<"M", "I", "N", "E">>,
   <<"c", "r", "a", "f", "t">>,
   <<"S", "k", "y", "W", "a", "r", "s">>,
   <<"s", "k", "y", "w", "a", "r">>,
   <<" ">>,
   <<"c", "a", "s", "t", "l", "e">>}

RECURSIVE Join(_, _)
Join(f, n) == IF n = 0 THEN <<>> ELSE Join(f, n - 1) \o f[n]

SanitizerInputs ==
  UNION {{Join(f, n) : f \in [1..n -> PromptPieces]} : n \in 1..MaxPieces}

UpperCase ==
  <<"A", "B", "C", "D", "E", "F", "G", "H", "I", "J", "K", "L", "M",
    "N", "O", "P", "Q", "R", "S", "T", "U", "V", "W", "X", "Y", "Z">>
LowerCase ==
  <<"a", "b", "c", "d", "e", "f", "g", "h", "i", "j", "k", "l", "m",
    "n", "o", "p", "q", "r", "s", "t", "u", "v", "w", "x", "y", "z">>

\* Case folding of the regular expression's i flag, on ASCII letters.
ToLower(c) ==
  IF \E i \in 1..26 : UpperCase[i] = c
  THEN LowerCase[CHOOSE i \in 1..26 : UpperCase[i] = c]
  ELSE c

Minecraft == <<"m", "i", "n", "e", "c", "r", "a", "f", "t">>
Skywars == <<"s", "k", "y", "w", "a", "r", "s">>
PixelFantasy == <<"p", "i", "x", "e", "l", " ", "f", "a", "n", "t", "a", "s", "y">>

\* Mutant: the i flag is missing, the match is case-sensitive.
MatchAtExact(s, i, w) ==
  /\ i + Len(w) - 1 <= Len(s)
  /\ \A k \in 1..Len(w) : s[i + k - 1] = w[k]

\* The word w matches s at position i, ignoring case.
MatchAt(s, i, w) ==
  /\ i + Len(w) - 1 <= Len(s)
  /\ \A k \in 1..Len(w) : ToLower(s[i + k - 1]) = w[k]

\* prompt.replace(/minecraft|skywars/gi, "pixel fantasy"): scan from the
\* left, replace each match and continue after it.
RECURSIVE ReplaceFrom(_, _)
ReplaceFrom(s, i) ==
  IF i > Len(s) THEN <<>>
  ELSE IF MatchAt(s, i, Minecraft)
       THEN PixelFantasy \o ReplaceFrom(s, i + Len(Minecraft))
  ELSE IF MatchAt(s, i, Skywars)
       THEN PixelFantasy \o ReplaceFrom(s, i + Len(Skywars))
  ELSE <<s[i]>> \o ReplaceFrom(s, i + 1)

WhiteSpace == {" ", "\n", "\t"}

\* String.prototype.trim
RECURSIVE Trim(_)
Trim(s) ==
  IF s = <<>> THEN s
  ELSE IF s[1] \in WhiteSpace THEN Trim(Tail(s))
  ELSE IF s[Len(s)] \in WhiteSpace THEN Trim(SubSeq(s, 1, Len(s) - 1))
  ELSE s

safePrompt(prompt) == Trim(ReplaceFrom(prompt, 1))

\* The fixed template around the sanitised prompt; each fixed piece of text
\* is one element.
TemplateHead ==
  <<"Crie um icone de app (logo) para um jogo RPG de aventura.\n",
    "Estilo: detalhado, dramatico, alto contraste, icone central, visual premium.\n",
    "Elementos: ">>
TemplateTail ==
  <<".\n",
    "Fundo: cor chapada (flat), sem textura, sem papel, sem mockup.\n",
    "Sem texto, sem letras, sem marca d'agua.\n",
    "Formato: app icon, cantos arredondados.\n",
    "Paleta: azul meia-noite, cinza aco, laranja fogo.">>

finalPrompt(prompt) == TemplateHead \o safePrompt(prompt) \o TemplateTail

(***************************************************************************)
(* Upstream payloads: the values of data?.data?.[0]?.b64_json and          *)
(* data?.data?.[0]?.url of a parsed image API response.                    *)
(***************************************************************************)
B64Data == <<"Q", "k", "0", "=">>
HostedUrl == <<"https://img.example/1.png">>
Payloads ==
  [b64 : {Undefined, Str(<<>>), Str(B64Data)},
   url : {Undefined, Str(<<>>), Str(HostedUrl)}]

DataUriPrefix == <<"data:image/png;base64,">>
NoData == [b64 |-> Undefined, url |-> Undefined]

(***************************************************************************)
(* State                                                                   *)
(***************************************************************************)
VARIABLES
  paidTokens,   \* the Token Store (line 63)
  gen,          \* bag of POST /api/generate requests suspended at an await
  pay,          \* bag of POST /pagar requests suspended at the Stripe call
  nreq,         \* requests received so far
  last,         \* what the latest handler step did: request and response
  whCount,      \* history: per token, verified completed webhooks processed
  used,         \* history: per token, generations whose upstream payload was parsed
  images,       \* history: per token, generations that returned an image
  granted       \* history: tokens paid for and not consumed since

vars == <<paidTokens, gen, pay, nreq, last, whCount, used, images, granted>>

NoBody == [tag |-> "none", image |-> <<>>]
Body(tag) == [tag |-> tag, image |-> <<>>]
ImageBody(img) == [tag |-> "image", image |-> img]

\* A handler step: the route, the step of the handler, the request's inputs,
\* what the upstream call gave, and the response sent (status 0: none yet).
Step(route, step, verified, evtype, token, prompt, upstream, data, status, body) ==
  [route |-> route, step |-> step, verified |-> verified, evtype |-> evtype,
   token |-> token, prompt |-> prompt, upstream |-> upstream, data |-> data,
   status |-> status, body |-> body]

Init ==
  /\ paidTokens = {}
  /\ gen = EmptyBag
  /\ pay = EmptyBag
  /\ nreq = 0
  /\ last = Step("none", "none", FALSE, "none", Undefined, Undefined, "none", NoData, 0, NoBody)
  /\ whCount = [t \in Tokens |-> 0]
  /\ used = [t \in Tokens |-> 0]
  /\ images = [t \in Tokens |-> 0]
  /\ granted = {}

\* A request suspends at an await, and resumes from it.
Suspend(bag, r) == bag (+) SetToBag({r})
Resume(bag, r) == bag (-) SetToBag({r})

Bump(f, t) == IF t \in DOMAIN f THEN [f EXCEPT ![t] = @ + 1] ELSE f

(***************************************************************************)
(* POST /webhook                                                           *)
(***************************************************************************)
\* Mutant: the signature is never verified.
ConstructEventNoVerify(sigOk) == FALSE

\* stripe.webhooks.constructEvent throws when the signature does not verify.
ConstructEventThrows(sigOk) == ~sigOk

\* Mutant: the event type is not looked at.
WebhookAddsAnyType(evtype, token) == Truthy(token)

\* Mutant: the comparison of the event type is inverted.
WebhookAddsInverted(evtype, token) == evtype # Completed /\ Truthy(token)

\* The handler adds the token: a completed checkout whose metadata has one.
WebhookAdds(evtype, token) == evtype = Completed /\ Truthy(token)

\* Mutant: adding a token that is in the store takes it out.
WebhookStoreToggle(store, evtype, token) ==
  IF WebhookAdds(evtype, token)
  THEN (IF token \in store THEN store \ {token} ELSE store \cup {token})
  ELSE store

\* if (token) paidTokens.add(token), for a completed checkout.
WebhookStore(store, evtype, token) ==
  IF WebhookAdds(evtype, token) THEN store \cup {token} ELSE store

Webhook(sigOk, evtype, token) ==
  /\ nreq < MaxRequests
  /\ nreq' = nreq + 1
  /\ UNCHANGED <<gen, pay, used, images>>
  /\ IF ConstructEventThrows(sigOk)
     THEN /\ paidTokens' = paidTokens
          /\ last' = Step("webhook", "verify", sigOk, evtype, token, Undefined,
                          "none", NoData, 400, Body("Webhook Error"))
     ELSE /\ paidTokens' = WebhookStore(paidTokens, evtype, token)
          /\ last' = Step("webhook", "event", sigOk, evtype, token, Undefined,
                          "none", NoData, 200, Body("received"))
  \* history: a verified completed event carrying a token was processed
  /\ IF sigOk /\ evtype = Completed /\ token \in Tokens
     THEN whCount' = Bump(whCount, token) /\ granted' = granted \cup {token}
     ELSE UNCHANGED <<whCount, granted>>

(***************************************************************************)
(* GET /criar                                                              *)
(***************************************************************************)
\* Mutant: any non-empty token opens the page.
CriarOkNoStore(token, store) == Truthy(token)

CriarOk(token, store) == Truthy(token) /\ token \in store

\* Mutant: the page is served only while no generation waits for the image
\* API, as if the upstream call blocked the process.
CriarBlocked(token) ==
  /\ gen = EmptyBag
  /\ nreq < MaxRequests
  /\ nreq' = nreq + 1
  /\ UNCHANGED <<paidTokens, gen, pay, whCount, used, images, granted>>
  /\ last' = IF CriarOk(token, paidTokens)
             THEN Step("criar", "render", FALSE, "none", token, Undefined,
                       "none", NoData, 200, Body("criar"))
             ELSE Step("criar", "denied", FALSE, "none", token, Undefined,
                       "none", NoData, 403, Body("Acesso negado"))

Criar(token) ==
  /\ nreq < MaxRequests
  /\ nreq' = nreq + 1
  /\ UNCHANGED <<paidTokens, gen, pay, whCount, used, images, granted>>
  /\ last' = IF CriarOk(token, paidTokens)
             THEN Step("criar", "render", FALSE, "none", token, Undefined,
                       "none", NoData, 200, Body("criar"))
             ELSE Step("criar", "denied", FALSE, "none", token, Undefined,
                       "none", NoData, 403, Body("Acesso negado"))

(***************************************************************************)
(* POST /pagar                                                             *)
(***************************************************************************)
\* Mutant: the minted token is put into the store at once.
PagarStartGrants(token) ==
  /\ nreq < MaxRequests
  /\ nreq' = nreq + 1
  /\ pay' = Suspend(pay, [token |-> token])
  /\ paidTokens' = paidTokens \cup {token}
  /\ last' = Step("pagar", "create", FALSE, "none", token, Undefined,
                  "none", NoData, 0, NoBody)
  /\ UNCHANGED <<gen, whCount, used, images, granted>>

\* Up to the await: mint a token and ask Stripe for a checkout session.
PagarStart(token) ==
  /\ nreq < MaxRequests
  /\ nreq' = nreq + 1
  /\ pay' = Suspend(pay, [token |-> token])
  /\ last' = Step("pagar", "create", FALSE, "none", token, Undefined,
                  "none", NoData, 0, NoBody)
  /\ UNCHANGED <<paidTokens, gen, whCount, used, images, granted>>

\* The Stripe call settles: the session's url, or an error.
PagarDone(r, ok) ==
  /\ BagIn(r, pay)
  /\ pay' = Resume(pay, r)
  /\ last' = IF ok
             THEN Step("pagar", "done", FALSE, "none", r.token, Undefined,
                       "none", NoData, 200, Body("url"))
             ELSE Step("pagar", "catch", FALSE, "none", r.token, Undefined,
                       "none", NoData, 500, Body("Erro ao criar pagamento"))
  /\ UNCHANGED <<paidTokens, gen, nreq, whCount, used, images, granted>>

(***************************************************************************)
(* POST /api/generate                                                      *)
(***************************************************************************)
\* Mutant: any non-empty token passes the check.
TokenOkNoStore(token, store) == Truthy(token)

TokenOk(token, store) == Truthy(token) /\ token \in store

\* Mutant: any truthy prompt passes, a string or not.
PromptOkAnyType(prompt) == Truthy(prompt)

PromptOk(prompt) == Truthy(prompt) /\ prompt.type = "string"

\* Mutant: the token is deleted as soon as it has passed the check.
GenerateStartConsumes(token, prompt) ==
  /\ nreq < MaxRequests
  /\ nreq' = nreq + 1
  /\ UNCHANGED <<pay, whCount, used, images, granted>>
  /\ IF ~TokenOk(token, paidTokens)
     THEN /\ gen' = gen
          /\ paidTokens' = paidTokens
          /\ last' = Step("generate", "start", FALSE, "none", token, prompt,
                          "none", NoData, 403, Body("Pagamento nao confirmado."))
     ELSE IF ~PromptOk(prompt)
     THEN /\ gen' = gen
          /\ paidTokens' = paidTokens
          /\ last' = Step("generate", "start", FALSE, "none", token, prompt,
                          "none", NoData, 400, Body("Prompt invalido."))
     ELSE /\ gen' = Suspend(gen, [token |-> token,
                                  prompt |-> finalPrompt(prompt.str),
                                  pc |-> "fetch"])
          /\ paidTokens' = paidTokens \ {token}
          /\ last' = Step("generate", "start", FALSE, "none", token, prompt,
                          "none", NoData, 0, NoBody)

\* Up to the first await: the two checks, then the call to the image API.
GenerateStart(token, prompt) ==
  /\ nreq < MaxRequests
  /\ nreq' = nreq + 1
  /\ UNCHANGED <<paidTokens, pay, whCount, used, images, granted>>
  /\ IF ~TokenOk(token, paidTokens)
     THEN /\ gen' = gen
          /\ last' = Step("generate", "start", FALSE, "none", token, prompt,
                          "none", NoData, 403, Body("Pagamento nao confirmado."))
     ELSE IF ~PromptOk(prompt)
     THEN /\ gen' = gen
          /\ last' = Step("generate", "start", FALSE, "none", token, prompt,
                          "none", NoData, 400, Body("Prompt invalido."))
     ELSE /\ gen' = Suspend(gen, [token |-> token,
                                  prompt |-> finalPrompt(prompt.str),
                                  pc |-> "fetch"])
          /\ last' = Step("generate", "start", FALSE, "none", token, prompt,
                          "none", NoData, 0, NoBody)

FetchOutcomes == {"ok", "notok", "throw"}

\* fetch settles: a success status, another status, or a network error.
FetchResolve(r, outcome) ==
  /\ BagIn(r, gen) /\ r.pc = "fetch"
  /\ UNCHANGED <<paidTokens, pay, nreq, whCount, used, images, granted>>
  /\ CASE outcome = "ok" ->
            /\ gen' = Suspend(Resume(gen, r), [r EXCEPT !.pc = "json"])
            /\ last' = Step("generate", "fetch", FALSE, "none", r.token, Undefined,
                            "ok", NoData, 0, NoBody)
       [] outcome = "notok" ->
            /\ gen' = Suspend(Resume(gen, r), [r EXCEPT !.pc = "text"])
            /\ last' = Step("generate", "fetch", FALSE, "none", r.token, Undefined,
                            "notok", NoData, 0, NoBody)
       [] outcome = "throw" ->
            /\ gen' = Resume(gen, r)
            /\ last' = Step("generate", "fetch", FALSE, "none", r.token, Undefined,
                            "network_error", NoData, 500, Body("Erro interno."))

\* resp.text() of a non-success response settles.
TextResolve(r, ok) ==
  /\ BagIn(r, gen) /\ r.pc = "text"
  /\ gen' = Resume(gen, r)
  /\ UNCHANGED <<paidTokens, pay, nreq, whCount, used, images, granted>>
  /\ last' = IF ok
             THEN Step("generate", "text", FALSE, "none", r.token, Undefined,
                       "text", NoData, 500, Body("Falha ao gerar imagem."))
             ELSE Step("generate", "text", FALSE, "none", r.token, Undefined,
                       "text_error", NoData, 500, Body("Erro interno."))

\* Mutant: the token is deleted also when the body is not JSON.
JsonThrowConsumes(r) ==
  /\ BagIn(r, gen) /\ r.pc = "json"
  /\ gen' = Resume(gen, r)
  /\ paidTokens' = paidTokens \ {r.token}
  /\ UNCHANGED <<pay, nreq, whCount, used, images, granted>>
  /\ last' = Step("generate", "json", FALSE, "none", r.token, Undefined,
                  "json_error", NoData, 500, Body("Erro interno."))

\* resp.json() of a success response fails: the body is not JSON.
JsonThrow(r) ==
  /\ BagIn(r, gen) /\ r.pc = "json"
  /\ gen' = Resume(gen, r)
  /\ UNCHANGED <<paidTokens, pay, nreq, whCount, used, images, granted>>
  /\ last' = Step("generate", "json", FALSE, "none", r.token, Undefined,
                  "json_error", NoData, 500, Body("Erro interno."))

\* Mutant: the token is never deleted.
ConsumeNever(store, token, data) == store

\* Mutant: the token is deleted only when the payload holds an image.
ConsumeIfImage(store, token, data) ==
  IF Truthy(data.b64) \/ Truthy(data.url) THEN store \ {token} ELSE store

\* Mutant: the whole store is cleared.
ConsumeAll(store, token, data) == {}

\* paidTokens.delete(token)
Consume(store, token, data) == store \ {token}

\* Mutant: the hosted URL is looked at before the base64 data.
GenerateResponseUrlFirst(data) ==
  IF Truthy(data.url) THEN <<200, ImageBody(data.url.str)>>
  ELSE IF Truthy(data.b64) THEN <<200, ImageBody(DataUriPrefix \o data.b64.str)>>
  ELSE <<500, Body("Resposta inesperada da API.")>>

\* The response for a parsed payload: status and body.
GenerateResponse(data) ==
  IF Truthy(data.b64) THEN <<200, ImageBody(DataUriPrefix \o data.b64.str)>>
  ELSE IF Truthy(data.url) THEN <<200, ImageBody(data.url.str)>>
  ELSE <<500, Body("Resposta inesperada da API.")>>

\* resp.json() of a success response gives data: consume the token, answer.
JsonResolve(r, data) ==
  /\ BagIn(r, gen) /\ r.pc = "json"
  /\ gen' = Resume(gen, r)
  /\ paidTokens' = Consume(paidTokens, r.token, data)
  /\ last' = Step("generate", "json", FALSE, "none", r.token, Undefined,
                  "json", data, GenerateResponse(data)[1], GenerateResponse(data)[2])
  /\ UNCHANGED <<pay, nreq, whCount>>
  \* history: the upstream call succeeded; an image was returned
  /\ used' = Bump(used, r.token)
  /\ granted' = granted \ {r.token}
  /\ images' = IF Truthy(data.b64) \/ Truthy(data.url)
               THEN Bump(images, r.token) ELSE images

(***************************************************************************)
(* Specifications                                                          *)
(***************************************************************************)
Arrival ==
  \/ \E sigOk \in BOOLEAN, evtype \in EventTypes, token \in MetadataTokens :
       Webhook(sigOk, evtype, token)
  \/ \E token \in TokenInputs : Criar(token)
  \/ \E token \in makeToken : PagarStart(token)
  \/ \E token \in TokenInputs, prompt \in PromptInputs : GenerateStart(token, prompt)

Settle ==
  \/ \E r \in BagToSet(pay), ok \in BOOLEAN : PagarDone(r, ok)
  \/ \E r \in BagToSet(gen), outcome \in FetchOutcomes : FetchResolve(r, outcome)
  \/ \E r \in BagToSet(gen), ok \in BOOLEAN : TextResolve(r, ok)
  \/ \E r \in BagToSet(gen) : JsonThrow(r)
  \/ \E r \in BagToSet(gen), data \in Payloads : JsonResolve(r, data)

\* Requests arrive at any time: handlers interleave at their awaits.
Next == Arrival \/ Settle

Spec == Init /\ [][Next]_vars

\* Sequential runs: a request arrives only when no other is in progress.
Quiet == gen = EmptyBag /\ pay = EmptyBag

SeqNext == (Quiet /\ Arrival) \/ Settle

SeqSpec == Init /\ [][SeqNext]_vars

\* Runs of the sanitiser: one token is paid for, and one request at a time
\* presents it, while it is in the store, with a prompt made of pieces.
PromptNext ==
  \/ Quiet /\ paidTokens = {} /\ Webhook(TRUE, Completed, T1)
  \/ Quiet /\ T1 \in paidTokens
       /\ \E p \in SanitizerInputs : GenerateStart(T1, Str(p))
  \/ \E r \in BagToSet(gen), outcome \in FetchOutcomes : FetchResolve(r, outcome)
  \/ \E r \in BagToSet(gen), ok \in BOOLEAN : TextResolve(r, ok)
  \/ \E r \in BagToSet(gen) : JsonThrow(r)
  \/ \E r \in BagToSet(gen), data \in Payloads : JsonResolve(r, data)

PromptSpec == Init /\ [][PromptNext]_vars

(***************************************************************************)
(* Properties                                                              *)
(*                                                                         *)
(* Every action sets last, so last' describes the step being taken and a   *)
(* property of the form [][P(last') => Q]_vars speaks about every handler  *)
(* step that P selects; the unprimed variables are the state the step      *)
(* started from.                                                           *)
(***************************************************************************)
NonEmptyString(v) == v.type = "string" /\ v.str # <<>>
HasImage(data) == Truthy(data.b64) \/ Truthy(data.url)

\* C1: in every reachable state the Token Store holds exactly the tokens for
\* which a verified checkout.session.completed webhook has been processed and
\* that no generation whose upstream call succeeded has consumed since.
C1_StoreIsPaidAndUnused == paidTokens = granted

\* C1 witness: one token was paid and then consumed, another is paid and unused.
C1_Witness ==
  \E t \in Tokens, u \in Tokens :
    /\ whCount[t] >= 1 /\ used[t] >= 1 /\ t \notin paidTokens
    /\ whCount[u] >= 1 /\ u \in paidTokens

\* C2: for every token, the number of POST /api/generate requests that
\* returned an image never exceeds the number of verified
\* checkout.session.completed webhooks processed for that token.
C2_SingleUse == \A t \in Tokens : images[t] <= whCount[t]

\* C3: a POST /api/generate whose token is not in the Token Store when it is
\* checked (a missing token included) is answered 403, calls the image API
\* not at all, and leaves the Token Store unchanged.
C3_UnknownTokenRejected ==
  [][(last'.route = "generate" /\ last'.step = "start"
        /\ last'.token \notin paidTokens)
     => (last'.status = 403 /\ gen' = gen /\ paidTokens' = paidTokens)]_vars

\* C3 witness: a token that was paid and consumed is refused while another
\* token is in the store.
C3_Witness ==
  /\ last.route = "generate" /\ last.step = "start" /\ last.status = 403
  /\ last.token \in Tokens /\ used[last.token] >= 1
  /\ paidTokens # {}

\* C4 as claimed: whenever the image API answered with a success status, the
\* token is out of the Token Store when the response is sent, whatever the
\* payload is.
C4_ConsumedOnUpstreamSuccess ==
  (last.route = "generate" /\ last.upstream \in {"json", "json_error"}
     /\ last.status # 0)
  => last.token \notin paidTokens

\* C4 amended: whenever the image API answered with a success status and its
\* body parsed as JSON, the token is out of the Token Store when the response
\* is sent, also when the payload has no usable image and the answer is 500.
C4_ConsumedOnParsedSuccess ==
  (last.route = "generate" /\ last.upstream = "json" /\ last.status # 0)
  => last.token \notin paidTokens

\* C4 witness: a paid token's generation got a payload without an image, was
\* answered 500, and the token is gone.
C4_Witness ==
  /\ last.route = "generate" /\ last.upstream = "json"
  /\ ~HasImage(last.data) /\ last.status = 500
  /\ last.token \in Tokens /\ whCount[last.token] >= 1
  /\ last.token \notin paidTokens

\* C5: a POST /webhook whose signature does not verify is answered 400 and
\* leaves the Token Store unchanged, whatever its event type and token.
C5_BadSignatureRejected ==
  [][(last'.route = "webhook" /\ ~last'.verified)
     => (last'.status = 400 /\ paidTokens' = paidTokens)]_vars

\* C5 witness: an unverified completed event carrying a token was refused and
\* the token is not in the store.
C5_Witness ==
  /\ last.route = "webhook" /\ ~last.verified /\ last.evtype = Completed
  /\ last.token \in Tokens /\ last.status = 400
  /\ last.token \notin paidTokens

\* C6: in a sequential run, for a token T with exactly one verified completed
\* webhook processed: GET /criar?token=T before T is consumed returns 200; a
\* POST /api/generate with T whose upstream call returns an image returns that
\* image; and every POST /api/generate with T that starts after an image was
\* returned for T is answered 403.
C6_Lifecycle ==
  \A t \in Tokens :
    (whCount[t] = 1 /\ last.token = t) =>
      /\ (last.route = "criar" /\ used[t] = 0) => last.status = 200
      /\ (last.route = "generate" /\ last.upstream = "json" /\ HasImage(last.data))
           => /\ last.status = 200
              /\ last.body.tag = "image"
              /\ last.body.image =
                   IF Truthy(last.data.b64)
                   THEN DataUriPrefix \o last.data.b64.str
                   ELSE last.data.url.str
      /\ (last.route = "generate" /\ last.step = "start" /\ images[t] >= 1)
           => last.status = 403

\* C6 witness: the token was paid once, one image was returned for it, and a
\* later generation with it was refused.
C6_Witness ==
  /\ last.route = "generate" /\ last.step = "start" /\ last.status = 403
  /\ last.token \in Tokens
  /\ whCount[last.token] = 1 /\ images[last.token] = 1

\* C7: webhook replay is not blocked.  After a token has been consumed by a
\* successful generation, a verified completed webhook carrying it puts it
\* back into the Token Store, and a POST /api/generate with it then passes the
\* token check again.
C7_ReplayRegrants ==
  [][/\ (last'.route = "webhook" /\ last'.verified /\ last'.evtype = Completed
           /\ last'.token \in Tokens /\ used[last'.token] >= 1)
        => last'.token \in paidTokens'
     /\ (last'.route = "generate" /\ last'.step = "start"
           /\ last'.token \in Tokens /\ used[last'.token] >= 1
           /\ last'.token \in paidTokens)
        => last'.status # 403]_vars

\* C7 witness: a token was consumed, a second webhook was processed for it,
\* and a generation with it passed the token check and called the image API.
C7_Witness ==
  /\ last.route = "generate" /\ last.step = "start" /\ last.status = 0
  /\ last.token \in Tokens
  /\ used[last.token] >= 1 /\ whCount[last.token] = 2

\* C8: a verified POST /webhook adds its token to the Token Store when its
\* type is checkout.session.completed and its metadata carries a non-empty
\* token, changes nothing in the store otherwise, and is answered with
\* 200 {received: true} in both cases.
C8_VerifiedWebhookEffect ==
  [][(last'.route = "webhook" /\ last'.verified)
     => /\ last'.status = 200 /\ last'.body.tag = "received"
        /\ paidTokens' =
             IF last'.evtype = Completed /\ NonEmptyString(last'.token)
             THEN paidTokens \cup {last'.token}
             ELSE paidTokens]_vars

\* C8 witness: a verified event of another type carrying an unpaid token was
\* acknowledged and the token is not in the store, which holds another token.
C8_Witness ==
  /\ last.route = "webhook" /\ last.verified /\ last.evtype # Completed
  /\ last.token \in Tokens /\ last.status = 200
  /\ last.token \notin paidTokens /\ paidTokens # {}

\* C9: POST /api/generate checks the token before the prompt.  A token that
\* is missing or not in the store gives 403 whatever the prompt; a token in
\* the store with a prompt that is missing, empty or not a string gives 400,
\* with no call to the image API and the token still in the store.
C9_TokenBeforePrompt ==
  [][(last'.route = "generate" /\ last'.step = "start")
     => /\ (last'.token \notin paidTokens) => last'.status = 403
        /\ (last'.token \in paidTokens /\ ~NonEmptyString(last'.prompt))
             => /\ last'.status = 400
                /\ gen' = gen
                /\ paidTokens' = paidTokens]_vars

\* C9 witness: a paid token came with a prompt that is not a string, the
\* answer was 400 and the token is still in the store.
C9_Witness ==
  /\ last.route = "generate" /\ last.step = "start" /\ last.status = 400
  /\ last.prompt.type = "number"
  /\ last.token \in paidTokens

\* C10: GET /criar?token=T returns 200 exactly when T is non-empty and in the
\* Token Store at the time of the request, and 403 otherwise; it never
\* changes the Token Store.
C10_CriarGate ==
  [][(last'.route = "criar")
     => /\ last'.status \in {200, 403}
        /\ last'.status = 200
             <=> (NonEmptyString(last'.token) /\ last'.token \in paidTokens)
        /\ paidTokens' = paidTokens]_vars

\* C10 witness: the page was served for a paid token, which is still in the
\* store.
C10_Witness ==
  /\ last.route = "criar" /\ last.status = 200
  /\ last.token \in paidTokens

\* Two characters are the same letter, whatever their case.
SameLetter(a, b) ==
  a = b \/ \E i \in 1..26 : {a, b} = {UpperCase[i], LowerCase[i]}

\* The word w occurs in s at position i, in any letter case.
OccursAt(s, i, w) ==
  /\ i + Len(w) - 1 <= Len(s)
  /\ \A k \in 1..Len(w) : SameLetter(s[i + k - 1], w[k])

Occurs(s, w) == \E i \in 1..Len(s) : OccursAt(s, i, w)

Denied(s, i) == OccursAt(s, i, Minecraft) \/ OccursAt(s, i, Skywars)

\* s with each occurrence of a denied word, from the left, replaced by
\* "pixel fantasy" and everything else kept in order.
RECURSIVE Neutralised(_)
Neutralised(s) ==
  IF \A i \in 1..Len(s) : ~Denied(s, i) THEN s
  ELSE LET i == CHOOSE j \in 1..Len(s) :
                  Denied(s, j) /\ \A k \in 1..(j - 1) : ~Denied(s, k)
           w == IF OccursAt(s, i, Minecraft) THEN Minecraft ELSE Skywars
       IN SubSeq(s, 1, i - 1) \o PixelFantasy
            \o Neutralised(SubSeq(s, i + Len(w), Len(s)))

\* s without its leading and trailing white space.
Stripped(s) ==
  LET inked == {i \in 1..Len(s) : s[i] \notin WhiteSpace}
  IN IF inked = {} THEN <<>>
     ELSE SubSeq(s, CHOOSE i \in inked : \A j \in inked : i <= j,
                    CHOOSE i \in inked : \A j \in inked : i >= j)

\* The latest step accepted a prompt and called the image API.
PromptAccepted ==
  last.route = "generate" /\ last.step = "start" /\ last.status = 0

\* C11 as claimed: for every accepted prompt, the prompt sent to the image
\* API has no occurrence, in any letter case, of "minecraft" or "skywars",
\* and is the fixed template around the prompt with each occurrence replaced
\* by "pixel fantasy" and the rest of the prompt kept in order.
C11_RestKept ==
  PromptAccepted =>
    \A r \in BagToSet(gen) :
      /\ ~Occurs(r.prompt, Minecraft) /\ ~Occurs(r.prompt, Skywars)
      /\ r.prompt = TemplateHead \o Neutralised(last.prompt.str) \o TemplateTail

\* C11 amended: as claimed, except that the white space at the two ends of
\* the prompt (after the replacement) is not kept.
C11_RestKeptButOuterSpace ==
  PromptAccepted =>
    \A r \in BagToSet(gen) :
      /\ ~Occurs(r.prompt, Minecraft) /\ ~Occurs(r.prompt, Skywars)
      /\ r.prompt =
           TemplateHead \o Stripped(Neutralised(last.prompt.str)) \o TemplateTail

\* C11 witness: "minecraft castle" was accepted and the prompt sent holds
\* "pixel fantasy castle".
C11_Witness ==
  /\ PromptAccepted
  /\ last.prompt.str =
       Minecraft \o <<" ">> \o <<"c", "a", "s", "t", "l", "e">>
  /\ \E r \in BagToSet(gen) :
       r.prompt = TemplateHead \o PixelFantasy
                    \o <<" ", "c", "a", "s", "t", "l", "e">> \o TemplateTail

\* C12: no step of POST /pagar changes the Token Store, whether the payment
\* API call succeeds or fails; and as long as no verified completed webhook
\* carrying a token has been processed, GET /criar and POST /api/generate
\* with that token are answered 403.
C12_PagarGrantsNothing ==
  [][/\ (last'.route = "pagar") => paidTokens' = paidTokens
     /\ (/\ last'.route = "criar" \/ (last'.route = "generate" /\ last'.step = "start")
         /\ last'.token \in Tokens
         /\ whCount[last'.token] = 0)
        => last'.status = 403]_vars

\* C12 witness: POST /pagar answered with the session's url for a token that
\* no webhook has carried, and the token is not in the store, which holds
\* another token.
C12_Witness ==
  /\ last.route = "pagar" /\ last.step = "done" /\ last.status = 200
  /\ whCount[last.token] = 0
  /\ last.token \notin paidTokens /\ paidTokens # {}

\* C13: the gap between the check and the delete is open.  A request that
\* passes the token check leaves the token in the store while it waits for
\* the image API, so a second request with the same token passes too; and a
\* request whose payload holds an image returns it even when the token has
\* been deleted in the meantime.
C13_CheckThenDeleteGap ==
  [][/\ (/\ last'.route = "generate" /\ last'.step = "start"
         /\ last'.token \in paidTokens /\ NonEmptyString(last'.prompt))
        => /\ last'.status = 0
           /\ paidTokens' = paidTokens
           /\ BagCardinality(gen') = BagCardinality(gen) + 1
     /\ (last'.route = "generate" /\ last'.step = "fetch")
        => paidTokens' = paidTokens
     /\ (last'.route = "generate" /\ last'.upstream = "json" /\ HasImage(last'.data))
        => last'.status = 200 /\ last'.body.tag = "image"]_vars

\* C13 witness: with one webhook processed for a token, two generations with
\* it have returned an image.
C13_Witness ==
  \E t \in Tokens : whCount[t] = 1 /\ images[t] = 2

\* The upstream call of the latest step failed: a network error, a
\* non-success status whose text was read or could not be read, or a success
\* status whose body is not JSON.
UpstreamFailures == {"network_error", "text", "text_error", "json_error"}

\* C14: when the image API call of a POST /api/generate fails, with a
\* non-success status or a thrown error, the request is answered 500, the
\* Token Store is left as it is, and the server makes no further upstream
\* call for the request; a POST /api/generate with a token in the store passes
\* the token check.
C14_FailureKeepsToken ==
  [][/\ (last'.route = "generate" /\ last'.upstream \in UpstreamFailures)
        => /\ last'.status = 500
           /\ paidTokens' = paidTokens
           /\ BagCardinality(gen') = BagCardinality(gen) - 1
     /\ (last'.route = "generate" /\ last'.upstream = "notok")
        => /\ paidTokens' = paidTokens
           /\ BagCardinality(gen') = BagCardinality(gen)
     /\ (last'.route = "generate" /\ last'.step = "start"
           /\ last'.token \in paidTokens)
        => last'.status # 403]_vars

\* C14 witness: a generation got a success status with a body that is not
\* JSON, was answered 500, and its token is still in the store.
C14_Witness ==
  /\ last.route = "generate" /\ last.upstream = "json_error"
  /\ last.status = 500
  /\ last.token \in paidTokens

\* C15: the answer to a POST /api/generate whose upstream payload parsed is
\* decided by the payload alone: 200 with the base64 data URI when b64_json
\* is there (non-empty), also when url is there too; 200 with the hosted URL
\* when only url is there; 500 when neither is.  Every request gets one
\* response: a step that answers ends the request, a step that does not
\* leaves it waiting.
C15_PayloadDecides ==
  [][(last'.route = "generate")
     => /\ (last'.upstream = "json") =>
             IF NonEmptyString(last'.data.b64)
             THEN /\ last'.status = 200
                  /\ last'.body = [tag |-> "image",
                                   image |-> DataUriPrefix \o last'.data.b64.str]
             ELSE IF NonEmptyString(last'.data.url)
             THEN /\ last'.status = 200
                  /\ last'.body = [tag |-> "image", image |-> last'.data.url.str]
             ELSE last'.status = 500 /\ last'.body.tag # "image"
        /\ BagCardinality(gen') =
             IF last'.step = "start"
             THEN BagCardinality(gen) + (IF last'.status = 0 THEN 1 ELSE 0)
             ELSE BagCardinality(gen) - (IF last'.status = 0 THEN 0 ELSE 1)]_vars

\* C15 witness: the payload held both base64 data and a URL, and the answer
\* is 200 with the data URI.
C15_Witness ==
  /\ last.route = "generate" /\ last.upstream = "json"
  /\ NonEmptyString(last.data.b64) /\ NonEmptyString(last.data.url)
  /\ last.status = 200
  /\ last.body.image = DataUriPrefix \o last.data.b64.str

\* C16: a POST /api/generate that waits for the image API blocks nothing.
\* While one waits, a webhook, a GET /criar, a POST /pagar and another
\* POST /api/generate can be handled (as long as the run has requests left),
\* a waiting POST /pagar can be completed, and every waiting generation can
\* take the step that the image API's answer triggers.
C16_NonBlocking ==
  gen # EmptyBag =>
    /\ nreq < MaxRequests =>
         /\ \A token \in MetadataTokens : ENABLED Webhook(TRUE, Completed, token)
         /\ \A token \in TokenInputs : ENABLED Criar(token)
         /\ \A token \in makeToken : ENABLED PagarStart(token)
         /\ \A token \in TokenInputs, prompt \in PromptInputs :
              ENABLED GenerateStart(token, prompt)
    /\ \A r \in BagToSet(pay) : ENABLED PagarDone(r, TRUE)
    /\ \A r \in BagToSet(gen) :
         CASE r.pc = "fetch" -> \A o \in FetchOutcomes : ENABLED FetchResolve(r, o)
           [] r.pc = "text" -> ENABLED TextResolve(r, TRUE)
           [] r.pc = "json" -> \A data \in Payloads : ENABLED JsonResolve(r, data)

\* C16 witness: GET /criar was served for a paid token while a generation
\* was waiting for the image API.
C16_Witness ==
  /\ last.route = "criar" /\ last.status = 200
  /\ gen # EmptyBag

\* C17: adding is idempotent.  A verified completed webhook for a token that
\* is in the Token Store leaves the store unchanged; and in a sequential run
\* the first generation that consumes a token takes it out of the store
\* however many webhooks were processed for it before.
C17_AddIsIdempotent ==
  [][/\ (/\ last'.route = "webhook" /\ last'.verified /\ last'.evtype = Completed
         /\ last'.token \in paidTokens)
        => paidTokens' = paidTokens
     /\ (/\ last'.route = "generate" /\ last'.upstream = "json"
         /\ last'.token \in Tokens
         /\ whCount[last'.token] >= 2 /\ used[last'.token] = 0)
        => last'.token \notin paidTokens']_vars

\* C17 witness: two webhooks were processed for a token, one generation
\* consumed it, and the next generation with it was refused.
C17_Witness ==
  /\ last.route = "generate" /\ last.step = "start" /\ last.status = 403
  /\ last.token \in Tokens
  /\ whCount[last.token] = 2 /\ used[last.token] = 1

\* C18: tokens are independent.  No step of POST /api/generate and no
\* POST /webhook changes whether a token other than the request's own is in
\* the Token Store.
C18_OtherTokensUntouched ==
  [][(last'.route \in {"generate", "webhook"})
     => \A u \in Tokens \ {last'.token} :
          (u \in paidTokens') <=> (u \in paidTokens)]_vars

\* C18 witness: a generation consumed its token and the other token is still
\* in the store.
C18_Witness ==
  /\ last.route = "generate" /\ last.upstream = "json"
  /\ last.token \in Tokens /\ last.token \notin paidTokens
  /\ \E u \in Tokens \ {last.token} : u \in paidTokens

====
